---- MODULE Spec2Model ----
(***************************************************************************)
(* Two-factor authentication server (Express + mongoose + speakeasy +      *)
(* jsonwebtoken).  The model follows the fuller of the two server files    *)
(* (the one with JWT cookies and Freja eID); the older server.js has the   *)
(* same /register, /login, /check, /setup and /verify handlers without     *)
(* the token.  Every handler is cut at its awaits on the database or on    *)
(* the eID provider, so that requests interleave as they do on the event   *)
(* loop.                                                                   *)
(***************************************************************************)
EXTENDS Integers, Sequences, FiniteSets, TLC

\* ---------------------------------------------------------------- bounds
MaxCounter == 0        \* TOTP codes a caller can type are those of counters 0..MaxCounter

\* ------------------------------------------------------ program constants
SessionLifetime == 3600    \* expiresIn: '1h', in the seconds of the exp claim
TotpPeriod      == 30      \* speakeasy's default time step (no step option is passed)

\* ------------------------------------------------------------ value sets
Procs     == {1, 2}
Emails    == {"a@x.com", "b@x.com"}
Passwords == {"p1", "p2"}
Secrets   == {"S1", "S2"}
Undefined == "<undefined>"          \* a field missing from req.body
NoSecret  == ""                     \* twoFactorSecret not set on the document

EmailInputs    == Emails \cup {""}
PasswordInputs == Passwords \cup {Undefined}

\* The instants the clock is sampled at: the start, the next TOTP step, and
\* the second of and the second after the expiry of a token signed at 0.
ClockInstants == {0, TotpPeriod, SessionLifetime, SessionLifetime + 1}

\* ---------------------------------------------------------------- bcrypt
\* A hash names the text it was made from and how many times that text
\* went through bcrypt (hashing a hash again gives a hash no password
\* matches).  The User model hashes the password when a new document is
\* saved.
bcryptHash(password) == [of |-> password, times |-> 1]
NoHash == [of |-> "", times |-> 0]

\* bcrypt.compare rejects (throws in the awaiting handler) without data.
bcryptCompareThrows(password) == password = Undefined

bcryptCompare(password, hash) == hash = bcryptHash(password)

\* ------------------------------------------------------------- speakeasy
\* The six digits of the code of `secret` at `counter`: HMAC is taken as
\* collision free, so the code names its secret and counter.
totpCode(secret, counter) == <<secret, counter>>

\* A twoFactorToken as it arrives in req.body.
UndefinedToken == [given |-> FALSE, text |-> <<>>]
EmptyToken     == [given |-> TRUE, text |-> <<>>]
CodeToken(secret, counter) == [given |-> TRUE, text |-> totpCode(secret, counter)]

TokenInputs ==
  {UndefinedToken, EmptyToken}
    \cup {CodeToken(s, c) : s \in Secrets, c \in 0..MaxCounter}

\* falsy in JavaScript: undefined or the empty string
FalsyToken(token) == ~token.given \/ token.text = <<>>

\* speakeasy.totp.verify throws when the secret or the token is missing.
totpVerifyThrows(secret, token) == secret = NoSecret \/ ~token.given

\* window 0: the token must be the code of the current counter.
totpVerify(secret, token, t) ==
  /\ token.text # <<>>
  /\ token.text = totpCode(secret, t \div TotpPeriod)

\* ---------------------------------------------------------- jsonwebtoken
ServiceKey == "private_key.pem"
NoToken == [email |-> "", iat |-> 0, exp |-> 0, alg |-> "", key |-> ""]

jwtSign(email, t) ==
  [email |-> email, iat |-> t, exp |-> t + SessionLifetime, alg |-> "RS256", key |-> ServiceKey]

\* Tokens the service never signed: another key pair under RS256, the
\* public key used as an HMAC secret, and an unsigned token.
ForgedTokens ==
  [email : {"a@x.com"}, iat : {0}, exp : {SessionLifetime, 2 * SessionLifetime},
   alg : {"RS256"}, key : {"other_key.pem"}]
    \cup [email : {"a@x.com"}, iat : {0}, exp : {SessionLifetime, 2 * SessionLifetime},
          alg : {"HS256"}, key : {"public_key.pem"}]
    \cup [email : {"a@x.com"}, iat : {0}, exp : {SessionLifetime, 2 * SessionLifetime},
          alg : {"none"}, key : {""}]

\* The signature verifies against public_key.pem under the token's algorithm.
SignatureVerifies(token) ==
  \/ token.alg = "RS256" /\ token.key = ServiceKey
  \/ token.alg = "HS256" /\ token.key = "public_key.pem"

\* variant: the algorithms option left out
jwtVerify_NoPin(token, t) ==
  /\ SignatureVerifies(token)
  /\ t < token.exp

\* variant: a token still accepted at the second of its expiry
jwtVerify_LateExpiry(token, t) ==
  /\ token.alg \in {"RS256"}
  /\ SignatureVerifies(token)
  /\ t <= token.exp

\* jwt.verify(token, publicKey, { algorithms: ['RS256'] }): no error.
jwtVerify(token, t) ==
  /\ token.alg \in {"RS256"}
  /\ SignatureVerifies(token)
  /\ t < token.exp

\* ------------------------------------------------------------- documents
\* A document of the User collection, as findOne returns it (found = FALSE
\* stands for null).
NoUser == [found |-> FALSE, email |-> "", password |-> NoHash, twoFactorSecret |-> NoSecret]

NewUser(email, password) ==
  [found |-> TRUE, email |-> email, password |-> bcryptHash(password),
   twoFactorSecret |-> NoSecret]

\* ------------------------------------------------------------- responses
\* What res.status(..).json(..) / res.cookie(..) sends: the status code, the
\* error text, and the other members of the body.
Res(status, error) ==
  [status |-> status, error |-> error, twoFactorRequired |-> FALSE, token |-> NoToken,
   details |-> "", twoFactor |-> FALSE, email |-> "", qrCodeImageUrl |-> NoSecret,
   result |-> "", clearCookie |-> FALSE]

NoRes == Res(0, "")

\* the catch blocks
RegisterFailed == Res(500, "Nagot gick fel vid registreringen")
LoginFailed(message) ==
  [Res(500, "Nagot gick fel vid inloggningen") EXCEPT !.details = message]
CheckFailed == Res(500, "Nagot gick fel med tvastegsinloggningen. (check)")
SetupFailed == Res(500, "Ett fel har intraffat vid konfiguration av tvastegsinloggning")

\* ------------------------------------------------- POST /login, after findOne
\* variant: the second factor never asked for
loginResponse_NoTotp(user, password, twoFactorToken, t) ==
  IF bcryptCompareThrows(password)
  THEN LoginFailed("data and hash arguments required")
  ELSE IF ~bcryptCompare(password, user.password)
  THEN Res(401, "Fel losenord och/eller epostadress")
  ELSE [Res(200, "") EXCEPT !.token = jwtSign(user.email, t)]

\* variant: the second factor looked at before the password
loginResponse_TotpFirst(user, password, twoFactorToken, t) ==
  IF user.twoFactorSecret # NoSecret /\ totpVerifyThrows(user.twoFactorSecret, twoFactorToken)
  THEN LoginFailed("Missing token")
  ELSE IF user.twoFactorSecret # NoSecret
          /\ ~totpVerify(user.twoFactorSecret, twoFactorToken, t)
  THEN [Res(401, "Fel tvastegskod, forsok igen.") EXCEPT !.twoFactorRequired = TRUE]
  ELSE IF bcryptCompareThrows(password)
  THEN LoginFailed("data and hash arguments required")
  ELSE IF ~bcryptCompare(password, user.password)
  THEN Res(401, "Fel losenord och/eller epostadress")
  ELSE [Res(200, "") EXCEPT !.token = jwtSign(user.email, t)]

\* variant: the second factor asked of every account
loginResponse_TotpAlways(user, password, twoFactorToken, t) ==
  IF bcryptCompareThrows(password)
  THEN LoginFailed("data and hash arguments required")
  ELSE IF ~bcryptCompare(password, user.password)
  THEN Res(401, "Fel losenord och/eller epostadress")
  ELSE IF ~twoFactorToken.given
  THEN LoginFailed("Missing token")
  ELSE IF ~totpVerify(user.twoFactorSecret, twoFactorToken, t)
  THEN [Res(401, "Fel tvastegskod, forsok igen.") EXCEPT !.twoFactorRequired = TRUE]
  ELSE [Res(200, "") EXCEPT !.token = jwtSign(user.email, t)]

\* bcrypt.compare, then speakeasy.totp.verify if the document read has a
\* secret, then jwt.sign; a throw of either lands in the catch block.
loginResponse(user, password, twoFactorToken, t) ==
  IF bcryptCompareThrows(password)
  THEN LoginFailed("data and hash arguments required")
  ELSE IF ~bcryptCompare(password, user.password)
  THEN Res(401, "Fel losenord och/eller epostadress")
  ELSE IF user.twoFactorSecret # NoSecret /\ totpVerifyThrows(user.twoFactorSecret, twoFactorToken)
  THEN LoginFailed("Missing token")
  ELSE IF user.twoFactorSecret # NoSecret
          /\ ~totpVerify(user.twoFactorSecret, twoFactorToken, t)
  THEN [Res(401, "Fel tvastegskod, forsok igen.") EXCEPT !.twoFactorRequired = TRUE]
  ELSE [Res(200, "") EXCEPT !.token = jwtSign(user.email, t)]

\* whether the handler reached the call of speakeasy.totp.verify
loginCallsTotp(user, password) ==
  /\ ~bcryptCompareThrows(password)
  /\ bcryptCompare(password, user.password)
  /\ user.twoFactorSecret # NoSecret

\* ----------------------------------------------------------------- state
VARIABLES
  users,    \* the User collection: email -> document
  now,      \* the clock, in seconds
  req,      \* the requests being handled: slot -> handler position and locals
  kept      \* the last token sent in a cookie, as the caller kept it

vars == <<users, now, req, kept>>

IdleSlot ==
  [op |-> "", pc |-> "idle", email |-> "", password |-> "", twoFactorToken |-> UndefinedToken,
   jwt |-> NoToken, idType |-> "", user |-> NoUser, secret |-> NoSecret, totp |-> FALSE,
   res |-> NoRes]

Init ==
  /\ users = [e \in Emails |-> NoUser]
  /\ now = 0
  /\ req = [p \in Procs |-> IdleSlot]
  /\ kept = NoToken

Free(p) == req[p].pc \in {"idle", "done"}

Done(slot, res) == [slot EXCEPT !.pc = "done", !.res = res]

\* --------------------------------------------------------- POST /register
\* variant: no lookup before the save
Register_NoExistsCheck(p, email, password, dbOk) ==
  /\ Free(p)
  /\ LET slot == [IdleSlot EXCEPT !.op = "register", !.email = email, !.password = password]
     IN req' = [req EXCEPT ![p] =
            IF email = "" \/ password = Undefined
            THEN Done(slot, Res(400, "Epost och losenord kravs"))
            ELSE IF ~dbOk
            THEN Done(slot, RegisterFailed)
            ELSE [slot EXCEPT !.pc = "save"]]
  /\ UNCHANGED <<users, now, kept>>

\* Up to the answer of User.findOne: the validation, the lookup, and the
\* reply when the email is taken.
Register(p, email, password, dbOk) ==
  /\ Free(p)
  /\ LET slot == [IdleSlot EXCEPT !.op = "register", !.email = email, !.password = password]
     IN req' = [req EXCEPT ![p] =
            IF email = "" \/ password = Undefined
            THEN Done(slot, Res(400, "Epost och losenord kravs"))
            ELSE IF ~dbOk
            THEN Done(slot, RegisterFailed)
            ELSE IF users[email].found
            THEN Done(slot, Res(400, "En anvandare med denna epost finns redan"))
            ELSE [slot EXCEPT !.pc = "save"]]
  /\ UNCHANGED <<users, now, kept>>

\* newUser.save() reaches the collection: emails are unique there, so a
\* document inserted meanwhile makes the save throw.
RegisterSave(p, dbOk) ==
  /\ req[p].op = "register" /\ req[p].pc = "save"
  /\ IF dbOk /\ ~users[req[p].email].found
       THEN /\ users' = [users EXCEPT ![req[p].email] = NewUser(req[p].email, req[p].password)]
            /\ req' = [req EXCEPT ![p] = Done(req[p], Res(200, ""))]
       ELSE /\ users' = users
            /\ req' = [req EXCEPT ![p] = Done(req[p], RegisterFailed)]
  /\ UNCHANGED <<now, kept>>

\* ------------------------------------------------------------ POST /login
\* variant: findOne with a projection that leaves the secret out
Login_WithoutSecret(p, email, password, twoFactorToken, dbOk) ==
  /\ Free(p)
  /\ LET slot == [IdleSlot EXCEPT !.op = "login", !.email = email, !.password = password,
                                  !.twoFactorToken = twoFactorToken]
     IN req' = [req EXCEPT ![p] =
            IF ~dbOk
            THEN Done(slot, LoginFailed("findOne failed"))
            ELSE IF ~users[email].found
            THEN Done(slot, Res(404, "Det finns ingen anvandare med denna epostadress"))
            ELSE [slot EXCEPT !.pc = "compare",
                              !.user = [users[email] EXCEPT !.twoFactorSecret = NoSecret]]]
  /\ UNCHANGED <<users, now, kept>>

\* Up to the answer of User.findOne.
Login(p, email, password, twoFactorToken, dbOk) ==
  /\ Free(p)
  /\ LET slot == [IdleSlot EXCEPT !.op = "login", !.email = email, !.password = password,
                                  !.twoFactorToken = twoFactorToken]
     IN req' = [req EXCEPT ![p] =
            IF ~dbOk
            THEN Done(slot, LoginFailed("findOne failed"))
            ELSE IF ~users[email].found
            THEN Done(slot, Res(404, "Det finns ingen anvandare med denna epostadress"))
            ELSE [slot EXCEPT !.pc = "compare", !.user = users[email]]]
  /\ UNCHANGED <<users, now, kept>>

\* After bcrypt.compare resolves: the rest of the handler runs in one turn.
LoginRespond(p) ==
  /\ req[p].op = "login" /\ req[p].pc = "compare"
  /\ LET res == loginResponse(req[p].user, req[p].password, req[p].twoFactorToken, now)
     IN /\ req' = [req EXCEPT ![p] =
                     [Done(req[p], res) EXCEPT
                        !.totp = loginCallsTotp(req[p].user, req[p].password)]]
        /\ kept' = IF res.token # NoToken THEN res.token ELSE kept
  /\ UNCHANGED <<users, now>>

\* ----------------------------------------------------------- POST /logout
\* variant: the server keeps a revocation list, so the copy the caller kept
\* is worth nothing after the logout
Logout_RevokesCopy(p) ==
  /\ Free(p)
  /\ req' = [req EXCEPT ![p] =
       Done([IdleSlot EXCEPT !.op = "logout"], [Res(200, "") EXCEPT !.clearCookie = TRUE])]
  /\ kept' = NoToken
  /\ UNCHANGED <<users, now>>

\* res.clearCookie('token'): the browser is told to drop its cookie; nothing
\* the server holds changes.
Logout(p) ==
  /\ Free(p)
  /\ req' = [req EXCEPT ![p] =
       Done([IdleSlot EXCEPT !.op = "logout"], [Res(200, "") EXCEPT !.clearCookie = TRUE])]
  /\ UNCHANGED <<users, now, kept>>

\* ------------------------------------------------------------ POST /check
\* variant: twoFactor is true for every account found
Check_AnyAccount(p, email, dbOk) ==
  /\ Free(p)
  /\ LET slot == [IdleSlot EXCEPT !.op = "check", !.email = email]
     IN req' = [req EXCEPT ![p] =
            IF ~dbOk
            THEN Done(slot, CheckFailed)
            ELSE IF ~users[email].found
            THEN Done(slot, Res(200, ""))
            ELSE Done(slot, [Res(200, "") EXCEPT !.twoFactor = TRUE])]
  /\ UNCHANGED <<users, now, kept>>

Check(p, email, dbOk) ==
  /\ Free(p)
  /\ LET slot == [IdleSlot EXCEPT !.op = "check", !.email = email]
     IN req' = [req EXCEPT ![p] =
            IF ~dbOk
            THEN Done(slot, CheckFailed)
            ELSE IF ~users[email].found
            THEN Done(slot, Res(200, ""))
            ELSE Done(slot, [Res(200, "") EXCEPT
                               !.twoFactor = (users[email].twoFactorSecret # NoSecret)])]
  /\ UNCHANGED <<users, now, kept>>

\* ------------------------------------------------------------ POST /setup
\* speakeasy.generateSecret: 20 random bytes, never the secret already set.
generateSecret(user) == Secrets \ {user.twoFactorSecret}

\* variant: no bcrypt.compare before the new secret
Setup_NoPasswordCheck(p, email, password, dbOk) ==
  /\ Free(p)
  /\ LET slot == [IdleSlot EXCEPT !.op = "setup", !.email = email, !.password = password]
     IN IF email = "" \/ password = Undefined
          THEN req' = [req EXCEPT ![p] = Done(slot, Res(400, "Epost och losenord kravs"))]
          ELSE IF ~dbOk
          THEN req' = [req EXCEPT ![p] = Done(slot, SetupFailed)]
          ELSE IF ~users[email].found
          THEN req' = [req EXCEPT ![p] = Done(slot, Res(404, "Anvandaren finns inte"))]
          ELSE \E secret \in generateSecret(users[email]) :
                 req' = [req EXCEPT ![p] =
                   [slot EXCEPT !.pc = "save", !.user = users[email], !.secret = secret]]
  /\ UNCHANGED <<users, now, kept>>

\* Up to user.save(): the validation, findOne, bcrypt.compare and the new
\* secret set on the document in hand.
Setup(p, email, password, dbOk) ==
  /\ Free(p)
  /\ LET slot == [IdleSlot EXCEPT !.op = "setup", !.email = email, !.password = password]
     IN IF email = "" \/ password = Undefined
          THEN req' = [req EXCEPT ![p] = Done(slot, Res(400, "Epost och losenord kravs"))]
          ELSE IF ~dbOk
          THEN req' = [req EXCEPT ![p] = Done(slot, SetupFailed)]
          ELSE IF ~users[email].found
          THEN req' = [req EXCEPT ![p] = Done(slot, Res(404, "Anvandaren finns inte"))]
          ELSE IF ~bcryptCompare(password, users[email].password)
          THEN req' = [req EXCEPT ![p] =
                 Done([slot EXCEPT !.user = users[email]], Res(401, "Fel losenord"))]
          ELSE \E secret \in generateSecret(users[email]) :
                 req' = [req EXCEPT ![p] =
                   [slot EXCEPT !.pc = "save", !.user = users[email], !.secret = secret]]
  /\ UNCHANGED <<users, now, kept>>

\* variant: the save hashes the stored hash again
SetupSave_RehashPassword(p, dbOk) ==
  /\ req[p].op = "setup" /\ req[p].pc = "save"
  /\ IF dbOk
       THEN /\ users' = [users EXCEPT ![req[p].email].twoFactorSecret = req[p].secret,
                                      ![req[p].email].password = [@ EXCEPT !.times = 2]]
            /\ req' = [req EXCEPT ![p] =
                 Done(req[p], [Res(200, "") EXCEPT !.qrCodeImageUrl = req[p].secret])]
       ELSE /\ users' = users
            /\ req' = [req EXCEPT ![p] = Done(req[p], SetupFailed)]
  /\ UNCHANGED <<now, kept>>

\* variant: the save writes the secret on every document
SetupSave_AllAccounts(p, dbOk) ==
  /\ req[p].op = "setup" /\ req[p].pc = "save"
  /\ IF dbOk
       THEN /\ users' = [e \in Emails |->
                 IF users[e].found
                 THEN [users[e] EXCEPT !.twoFactorSecret = req[p].secret]
                 ELSE users[e]]
            /\ req' = [req EXCEPT ![p] =
                 Done(req[p], [Res(200, "") EXCEPT !.qrCodeImageUrl = req[p].secret])]
       ELSE /\ users' = users
            /\ req' = [req EXCEPT ![p] = Done(req[p], SetupFailed)]
  /\ UNCHANGED <<now, kept>>

\* variant: a secret already set is kept, the new one is only shown
SetupSave_KeepOldSecret(p, dbOk) ==
  /\ req[p].op = "setup" /\ req[p].pc = "save"
  /\ IF dbOk
       THEN /\ users' = [users EXCEPT ![req[p].email].twoFactorSecret =
                           IF @ = NoSecret THEN req[p].secret ELSE @]
            /\ req' = [req EXCEPT ![p] =
                 Done(req[p], [Res(200, "") EXCEPT !.qrCodeImageUrl = req[p].secret])]
       ELSE /\ users' = users
            /\ req' = [req EXCEPT ![p] = Done(req[p], SetupFailed)]
  /\ UNCHANGED <<now, kept>>

\* user.save() reaches the collection (only the modified path is written),
\* then the QR code of the otpauth URL of the secret is sent.
SetupSave(p, dbOk) ==
  /\ req[p].op = "setup" /\ req[p].pc = "save"
  /\ IF dbOk
       THEN /\ users' = [users EXCEPT ![req[p].email].twoFactorSecret = req[p].secret]
            /\ req' = [req EXCEPT ![p] =
                 Done(req[p], [Res(200, "") EXCEPT !.qrCodeImageUrl = req[p].secret])]
       ELSE /\ users' = users
            /\ req' = [req EXCEPT ![p] = Done(req[p], SetupFailed)]
  /\ UNCHANGED <<now, kept>>

\* ----------------------------------------------------------- POST /verify
Verify(p, email, token, dbOk) ==
  /\ Free(p)
  /\ LET slot == [IdleSlot EXCEPT !.op = "verify", !.email = email,
                                  !.twoFactorToken = token]
     IN req' = [req EXCEPT ![p] =
            IF email = "" \/ FalsyToken(token)
            THEN Done(slot, Res(400, "Epost och tvastegskod kravs for att validera"))
            ELSE IF ~dbOk
            THEN Done(slot, SetupFailed)
            ELSE IF ~users[email].found
            THEN Done(slot, Res(404, "Anvandaren finns inte"))
            ELSE IF totpVerifyThrows(users[email].twoFactorSecret, token)
            THEN Done([slot EXCEPT !.user = users[email]], SetupFailed)
            ELSE IF totpVerify(users[email].twoFactorSecret, token, now)
            THEN Done([slot EXCEPT !.user = users[email]], Res(200, ""))
            ELSE Done([slot EXCEPT !.user = users[email]],
                      Res(400, "Fel tvastegskod, kontrollera sa att koden inte gatt ut."))]
  /\ UNCHANGED <<users, now, kept>>

\* ------------------------------------------------------------ POST /freja
ProviderStatus == {"completed", "pending", "failed"}

\* Up to client.authRequest(login): nothing is awaited before it.
Freja(p, login, type) ==
  /\ Free(p)
  /\ LET slot == [IdleSlot EXCEPT !.op = "freja", !.email = login,
                                  !.idType = IF type = Undefined THEN "ssn" ELSE type]
     IN req' = [req EXCEPT ![p] =
          IF login = ""
          THEN Done([slot EXCEPT !.idType = ""],
                    Res(400, "Epost eller personnummer maste anges"))
          ELSE [slot EXCEPT !.pc = "provider"]]
  /\ UNCHANGED <<users, now, kept>>

\* variant: a token whatever the status
frejaResponse_AnyStatus(status, primaryEmail, t) ==
  [Res(200, "") EXCEPT !.token = jwtSign(primaryEmail, t), !.result = status]

\* the .then callback of authRequest
frejaResponse(status, primaryEmail, t) ==
  IF status = "completed"
  THEN [Res(200, "") EXCEPT !.token = jwtSign(primaryEmail, t), !.result = status]
  ELSE [Res(401, status) EXCEPT !.result = status]

\* variant: a completed assertion counts only for an email registered here
FrejaResult_LocalAccountsOnly(p, status, primaryEmail) ==
  /\ req[p].op = "freja" /\ req[p].pc = "provider"
  /\ LET res == IF status = "completed" /\ ~users[primaryEmail].found
                THEN [Res(401, status) EXCEPT !.result = status]
                ELSE frejaResponse(status, primaryEmail, now)
     IN /\ req' = [req EXCEPT ![p] =
                     [Done(req[p], res) EXCEPT
                        !.user = [NoUser EXCEPT !.email = primaryEmail]]]
        /\ kept' = IF res.token # NoToken THEN res.token ELSE kept
  /\ UNCHANGED <<users, now>>

\* The provider's promise resolves with a result.
FrejaResult(p, status, primaryEmail) ==
  /\ req[p].op = "freja" /\ req[p].pc = "provider"
  /\ LET res == frejaResponse(status, primaryEmail, now)
     IN /\ req' = [req EXCEPT ![p] =
                     [Done(req[p], res) EXCEPT
                        !.user = [NoUser EXCEPT !.email = primaryEmail]]]
        /\ kept' = IF res.token # NoToken THEN res.token ELSE kept
  /\ UNCHANGED <<users, now>>

\* The provider's promise rejects: there is no .catch, nothing is sent.
FrejaReject(p) ==
  /\ req[p].op = "freja" /\ req[p].pc = "provider"
  /\ req' = [req EXCEPT ![p].pc = "unanswered"]
  /\ UNCHANGED <<users, now, kept>>

\* ------------------------------------------------------ GET /authenticate
authenticateResponse(token, t) ==
  IF token = NoToken
  THEN Res(403, "Token saknas")
  ELSE IF ~jwtVerify(token, t)
  THEN Res(401, "Medskickad token ar inte giltig")
  ELSE [Res(200, "") EXCEPT !.email = token.email]

\* The caller sends no cookie, the token it kept, or a token of its own
\* making.
authenticateToken(p, token) ==
  /\ Free(p)
  /\ req' = [req EXCEPT ![p] =
       Done([IdleSlot EXCEPT !.op = "authenticate", !.jwt = token],
            authenticateResponse(token, now))]
  /\ UNCHANGED <<users, now, kept>>

\* ------------------------------------------------------------------ clock
\* Time moves to the next instant; an exchange that has been answered is
\* over by then, so what a slot shows is always an answer given at `now`.
Tick ==
  /\ \E t \in ClockInstants :
       /\ t > now
       /\ \A u \in ClockInstants : u > now => t <= u
       /\ now' = t
  /\ req' = [p \in Procs |-> IF req[p].pc = "done" THEN IdleSlot ELSE req[p]]
  /\ UNCHANGED <<users, kept>>

\* ---------------------------------------------------------- specification
\* One step of the request in slot p; db is the set of outcomes a call of
\* the store may have (TRUE: it answers, FALSE: it throws).
Step(p, db) ==
  \/ \E email \in EmailInputs, password \in PasswordInputs, dbOk \in db :
       Register(p, email, password, dbOk)
  \/ \E dbOk \in db : RegisterSave(p, dbOk)
  \/ \E email \in Emails, password \in PasswordInputs, token \in TokenInputs, dbOk \in db :
       Login(p, email, password, token, dbOk)
  \/ LoginRespond(p)
  \/ Logout(p)
  \/ \E email \in Emails, dbOk \in db : Check(p, email, dbOk)
  \/ \E email \in EmailInputs, password \in PasswordInputs, dbOk \in db :
       Setup(p, email, password, dbOk)
  \/ \E dbOk \in db : SetupSave(p, dbOk)
  \/ \E email \in EmailInputs, token \in TokenInputs, dbOk \in db :
       Verify(p, email, token, dbOk)
  \/ \E login \in {"", "198001011234"}, type \in {Undefined, "email"} : Freja(p, login, type)
  \/ \E status \in ProviderStatus, primaryEmail \in Emails :
       FrejaResult(p, status, primaryEmail)
  \/ FrejaReject(p)
  \/ \E token \in {NoToken, kept} \cup ForgedTokens : authenticateToken(p, token)

\* one request at a time, against a store that answers
Next == Step(1, {TRUE}) \/ Tick

Spec == Init /\ [][Next]_vars

\* ------------------------------------------------------------ properties
\* one request at a time, against a store whose every call may throw
NextFaulty == Step(1, BOOLEAN) \/ Tick

FaultSpec == Init /\ [][NextFaulty]_vars

\* Requests in flight together: each await of /register, /login and /setup
\* lets the other request run. One account, at one instant of the clock.
ConcEmails == {"a@x.com"}

ConcStep(p) ==
  \/ \E email \in ConcEmails, password \in Passwords : Register(p, email, password, TRUE)
  \/ RegisterSave(p, TRUE)
  \/ \E email \in ConcEmails, password \in Passwords, token \in TokenInputs :
       Login(p, email, password, token, TRUE)
  \/ LoginRespond(p)
  \/ \E email \in ConcEmails, password \in Passwords : Setup(p, email, password, TRUE)
  \/ SetupSave(p, TRUE)

NextConc == \E p \in Procs : ConcStep(p)

ConcSpec == Init /\ [][NextConc]_vars

\* The spec's names for what a caller sees.
Answered(p, op) == req[p].op = op /\ req[p].pc = "done"
Succeeded(res) == res.status = 200
UnknownAccount(res) == res.status = 404
InvalidCredentials(res) == res.status = 401 /\ ~res.twoFactorRequired
InvalidSecondFactor(res) == res.status = 401 /\ res.twoFactorRequired
DuplicateAccount(res) ==
  res.status = 400 /\ res.error = "En anvandare med denna epost finns redan"
TokenInvalid(res) == res.status = 401 /\ res.email = ""
ServiceSigned(token) == token.alg = "RS256" /\ token.key = ServiceKey

\* C1: a token leaves /login only when, in that request, the account of the
\* email was found, the password matched its hash, and, if the document
\* read had a secret, the twoFactorToken verified against it.
C1_TokenOnlyAfterAllFactors ==
  \A p \in Procs :
    (Answered(p, "login") /\ req[p].res.token # NoToken) =>
      /\ req[p].user.found
      /\ req[p].user.email = req[p].email
      /\ req[p].res.token.email = req[p].email
      /\ bcryptCompare(req[p].password, req[p].user.password)
      /\ req[p].user.twoFactorSecret # NoSecret =>
           /\ req[p].twoFactorToken.given
           /\ totpVerify(req[p].user.twoFactorSecret, req[p].twoFactorToken, now)

C1_Witness ==
  \E p \in Procs :
    /\ Answered(p, "login") /\ req[p].res.token # NoToken
    /\ req[p].user.twoFactorSecret # NoSecret

\* C2: for an account without a secret, login succeeds exactly when the
\* password matches, whatever twoFactorToken is sent, and
\* speakeasy.totp.verify is not called.
C2_NoSecretPasswordDecides ==
  \A p \in Procs :
    (Answered(p, "login") /\ req[p].user.found /\ req[p].user.twoFactorSecret = NoSecret) =>
      /\ (Succeeded(req[p].res) /\ req[p].res.token # NoToken)
           <=> bcryptCompare(req[p].password, req[p].user.password)
      /\ ~Succeeded(req[p].res) => req[p].res.token = NoToken
      /\ ~req[p].totp
      /\ \A other \in TokenInputs :
           loginResponse(req[p].user, req[p].password, other, now) = req[p].res

C2_Witness ==
  \E p \in Procs :
    /\ Answered(p, "login") /\ req[p].user.found /\ req[p].user.twoFactorSecret = NoSecret
    /\ req[p].twoFactorToken = UndefinedToken
    /\ Succeeded(req[p].res)

\* C3 (as claimed): with the right password and a twoFactorToken that does
\* not verify, the absent one included, login on an account with a secret
\* answers InvalidSecondFactor with the flag, and sends no token.
C3_BadSecondFactorFlagged ==
  \A p \in Procs :
    ( /\ Answered(p, "login") /\ req[p].user.found
      /\ req[p].user.twoFactorSecret # NoSecret
      /\ bcryptCompare(req[p].password, req[p].user.password)
      /\ ~( /\ req[p].twoFactorToken.given
            /\ totpVerify(req[p].user.twoFactorSecret, req[p].twoFactorToken, now)) ) =>
      /\ InvalidSecondFactor(req[p].res)
      /\ req[p].res.token = NoToken

\* C4: once registered and set up, a login with the password and the code
\* of the stored secret at the current step succeeds with a token that
\* /authenticate accepts for that email; a finished setup has stored its
\* secret and left the hash as it was, matching the password given.
C4_EnrolledLoginSucceeds ==
  \A p \in Procs :
    /\ ( /\ Answered(p, "login") /\ req[p].user.found
         /\ bcryptCompare(req[p].password, req[p].user.password)
         /\ req[p].user.twoFactorSecret # NoSecret
         /\ req[p].twoFactorToken.given
         /\ totpVerify(req[p].user.twoFactorSecret, req[p].twoFactorToken, now) ) =>
         /\ Succeeded(req[p].res)
         /\ authenticateResponse(req[p].res.token, now)
              = [Res(200, "") EXCEPT !.email = req[p].email]
    /\ (Answered(p, "setup") /\ Succeeded(req[p].res)) =>
         /\ users[req[p].email].twoFactorSecret = req[p].secret
         /\ users[req[p].email].password = req[p].user.password
         /\ bcryptCompare(req[p].password, users[req[p].email].password)
         /\ \E password \in Passwords : users[req[p].email] =
              [NewUser(req[p].email, password) EXCEPT !.twoFactorSecret = req[p].secret]

C4_Witness ==
  \E p \in Procs :
    /\ Answered(p, "login") /\ Succeeded(req[p].res)
    /\ req[p].user.twoFactorSecret # NoSecret
    /\ users[req[p].email] = req[p].user
    /\ kept = req[p].res.token

\* C5: /setup with a password that does not match, or for an email without
\* an account, answers InvalidCredentials (resp. UnknownAccount) at once and
\* leaves the collection as it was.
C5_FailedSetupChangesNothing ==
  [][\A p \in Procs :
       ( /\ Free(p) /\ req'[p] # req[p] /\ req'[p].op = "setup"
         /\ req'[p].email \in Emails /\ req'[p].password \in Passwords ) =>
         /\ ~users[req'[p].email].found =>
              /\ req'[p].pc = "done" /\ UnknownAccount(req'[p].res)
              /\ users' = users
         /\ ( /\ users[req'[p].email].found
              /\ ~bcryptCompare(req'[p].password, users[req'[p].email].password) ) =>
              /\ req'[p].pc = "done" /\ InvalidCredentials(req'[p].res)
              /\ users' = users]_vars

C5_Witness ==
  \E p \in Procs :
    /\ Answered(p, "setup") /\ InvalidCredentials(req[p].res)
    /\ users[req[p].email].found
    /\ users[req[p].email].twoFactorSecret = NoSecret

\* C6: /register for an email that has an account answers DuplicateAccount
\* at once, whatever password is given, and leaves the collection as it was.
C6_DuplicateRegistrationRejected ==
  [][\A p \in Procs :
       ( /\ Free(p) /\ req'[p] # req[p] /\ req'[p].op = "register"
         /\ req'[p].email \in Emails /\ req'[p].password \in Passwords
         /\ users[req'[p].email].found ) =>
         /\ req'[p].pc = "done" /\ DuplicateAccount(req'[p].res)
         /\ users' = users]_vars

C6_Witness ==
  \E p \in Procs :
    /\ Answered(p, "register") /\ DuplicateAccount(req[p].res)
    /\ users[req[p].email].found
    /\ users[req[p].email].twoFactorSecret # NoSecret
    /\ ~bcryptCompare(req[p].password, users[req[p].email].password)

\* C7 (as claimed): a token signed at t expires at t + 1 hour; it is
\* accepted from t up to and including its expiry and refused after it.
C7_AcceptedThroughExpiry ==
  \A p \in Procs :
    (Answered(p, "authenticate") /\ ServiceSigned(req[p].jwt)) =>
      /\ req[p].jwt.exp = req[p].jwt.iat + SessionLifetime
      /\ now <= req[p].jwt.exp =>
           Succeeded(req[p].res) /\ req[p].res.email = req[p].jwt.email
      /\ now > req[p].jwt.exp => TokenInvalid(req[p].res)

\* C7 (amended): a token signed at t expires at t + 1 hour; it is accepted
\* at every time from t that is before its expiry, and refused at its
\* expiry and at every time after.
C7_AcceptedBeforeExpiry ==
  \A p \in Procs :
    /\ ( /\ req[p].op \in {"login", "freja"} /\ req[p].pc = "done"
         /\ req[p].res.token # NoToken ) =>
         /\ req[p].res.token.iat = now
         /\ req[p].res.token.exp = now + SessionLifetime
         /\ authenticateResponse(req[p].res.token, now).status = 200
    /\ (Answered(p, "authenticate") /\ ServiceSigned(req[p].jwt)) =>
         /\ req[p].jwt.exp = req[p].jwt.iat + SessionLifetime
         /\ now < req[p].jwt.exp =>
              Succeeded(req[p].res) /\ req[p].res.email = req[p].jwt.email
         /\ now >= req[p].jwt.exp => TokenInvalid(req[p].res)

C7_Witness ==
  \E p \in Procs :
    /\ Answered(p, "authenticate") /\ ServiceSigned(req[p].jwt)
    /\ now = req[p].jwt.exp
    /\ TokenInvalid(req[p].res)

\* C8: /authenticate refuses as invalid every token that was not signed
\* with the service's private key under RS256, whatever its subject and
\* its expiry.
C8_ForeignTokensRefused ==
  \A p \in Procs :
    ( /\ Answered(p, "authenticate") /\ req[p].jwt # NoToken
      /\ ~ServiceSigned(req[p].jwt) ) =>
      TokenInvalid(req[p].res)

C8_Witness ==
  \E p \in Procs :
    /\ Answered(p, "authenticate")
    /\ req[p].jwt.alg = "HS256" /\ req[p].jwt.key = "public_key.pem"
    /\ now < req[p].jwt.exp
    /\ TokenInvalid(req[p].res)

\* C9: /freja sends a token exactly when the provider's status is
\* completed, and then for the provider's email; any other status is
\* answered 401 with the provider's result and no token.
C9_FederatedTokenIffCompleted ==
  \A p \in Procs :
    Answered(p, "freja") =>
      /\ req[p].res.token # NoToken <=> req[p].res.result = "completed"
      /\ req[p].res.result = "completed" =>
           /\ Succeeded(req[p].res)
           /\ req[p].res.token = jwtSign(req[p].user.email, now)
      /\ req[p].res.result \in ProviderStatus \ {"completed"} =>
           /\ req[p].res.status = 401
           /\ req[p].res.error = req[p].res.result

C9_Witness ==
  \E p \in Procs :
    /\ Answered(p, "freja") /\ req[p].res.result = "completed"
    /\ req[p].res.token.email = "b@x.com"
    /\ ~users["b@x.com"].found

\* C10: with a password that does not match, login answers the same
\* whether or not the account has a secret and whatever twoFactorToken is
\* sent: InvalidCredentials without the flag when a password was given, and
\* speakeasy.totp.verify is not called.
C10_WrongPasswordHidesEnrollment ==
  \A p \in Procs :
    ( /\ Answered(p, "login") /\ req[p].user.found
      /\ ~bcryptCompare(req[p].password, req[p].user.password) ) =>
      /\ req[p].password \in Passwords =>
           /\ InvalidCredentials(req[p].res)
           /\ req[p].res = Res(401, "Fel losenord och/eller epostadress")
      /\ ~req[p].totp
      /\ \A secret \in Secrets \cup {NoSecret}, other \in TokenInputs :
           loginResponse([req[p].user EXCEPT !.twoFactorSecret = secret],
                         req[p].password, other, now) = req[p].res

C10_Witness ==
  \E p \in Procs :
    /\ Answered(p, "login") /\ req[p].user.found
    /\ req[p].password \in Passwords
    /\ ~bcryptCompare(req[p].password, req[p].user.password)
    /\ req[p].user.twoFactorSecret # NoSecret
    /\ ~totpVerify(req[p].user.twoFactorSecret, req[p].twoFactorToken, now)

\* C11: the twoFactorSecret of an account changes only when the user.save()
\* of a /setup whose password matched reaches the collection, and then to
\* the new secret of that request; a secret once set is never cleared.
C11_SecretChangesOnlyInProvenSetup ==
  [][\A e \in Emails :
       /\ users'[e].twoFactorSecret # users[e].twoFactorSecret =>
            \E p \in Procs :
              /\ req[p].op = "setup" /\ req[p].pc = "save" /\ req[p].email = e
              /\ req'[p].pc = "done"
              /\ bcryptCompare(req[p].password, users[e].password)
              /\ users'[e].twoFactorSecret = req[p].secret
       /\ users[e].twoFactorSecret # NoSecret => users'[e].twoFactorSecret # NoSecret]_vars

C11_Witness ==
  \E p \in Procs :
    /\ Answered(p, "setup") /\ Succeeded(req[p].res)
    /\ req[p].user.twoFactorSecret # NoSecret
    /\ users[req[p].email].twoFactorSecret = req[p].secret
    /\ req[p].secret # req[p].user.twoFactorSecret

\* C12: a /setup that answers 200 has replaced the secret of the account by
\* a new one, different from the one it read; from then on /login with the
\* right password and /verify accept the current code of the stored secret
\* and refuse every code of another secret, the replaced one included.
C12_SetupReplacesSecret ==
  \A p \in Procs :
    /\ (Answered(p, "setup") /\ Succeeded(req[p].res)) =>
         LET e == req[p].email
             old == req[p].user.twoFactorSecret
         IN /\ users[e].twoFactorSecret = req[p].secret
            /\ req[p].secret # NoSecret /\ req[p].secret # old
            /\ \A c \in 0..MaxCounter :
                 ~Succeeded(loginResponse(users[e], req[p].password, CodeToken(old, c), now))
            /\ Succeeded(loginResponse(users[e], req[p].password,
                                       CodeToken(req[p].secret, now \div TotpPeriod), now))
    /\ ( /\ Answered(p, "login") /\ req[p].user.found
         /\ users[req[p].email].twoFactorSecret # NoSecret
         /\ bcryptCompare(req[p].password, req[p].user.password)
         /\ req[p].twoFactorToken.given ) =>
         (Succeeded(req[p].res) <=>
            req[p].twoFactorToken.text =
              totpCode(users[req[p].email].twoFactorSecret, now \div TotpPeriod))
    /\ ( /\ Answered(p, "verify") /\ req[p].user.found
         /\ users[req[p].email].twoFactorSecret # NoSecret
         /\ ~FalsyToken(req[p].twoFactorToken) ) =>
         (Succeeded(req[p].res) <=>
            req[p].twoFactorToken.text =
              totpCode(users[req[p].email].twoFactorSecret, now \div TotpPeriod))

C12_Witness ==
  \E p \in Procs :
    /\ Answered(p, "setup") /\ Succeeded(req[p].res)
    /\ req[p].user.twoFactorSecret = "S1"
    /\ users[req[p].email].twoFactorSecret = "S2"
    /\ now = 0

\* C13: a /check that the store answers replies 200 with twoFactor true
\* exactly when a document with that email exists and has a non-empty
\* twoFactorSecret, so false for an unknown email, and the step leaves the
\* collection as it was.
C13_CheckTellsEnrollment ==
  [][\A p \in Procs :
       (req'[p] # req[p] /\ req'[p].op = "check") =>
         /\ users' = users
         /\ req'[p].pc = "done"
         /\ Succeeded(req'[p].res)
         /\ req'[p].res.twoFactor <=>
              /\ users[req'[p].email].found
              /\ users[req'[p].email].twoFactorSecret # NoSecret]_vars

C13_Witness ==
  \E p \in Procs :
    /\ Answered(p, "check") /\ Succeeded(req[p].res)
    /\ req[p].res.twoFactor
    /\ users[req[p].email].twoFactorSecret # NoSecret

\* what /verify sends for a code that does not verify
VerifyRefused(res) ==
  res.status = 400 /\ res.error = "Fel tvastegskod, kontrollera sa att koden inte gatt ut."

\* C14 (as claimed): /verify with an email and a token answers UnknownAccount
\* when no document has the email, InvalidSecondFactor when the token is not
\* the current code of the stored twoFactorSecret, and success otherwise; it
\* sends no session token.
C14_VerifyOutcomes ==
  \A p \in Procs :
    ( /\ Answered(p, "verify")
      /\ req[p].email # "" /\ ~FalsyToken(req[p].twoFactorToken) ) =>
      LET account == users[req[p].email]
      IN /\ req[p].res.token = NoToken
         /\ IF ~account.found
              THEN UnknownAccount(req[p].res)
              ELSE IF ~totpVerify(account.twoFactorSecret, req[p].twoFactorToken, now)
              THEN VerifyRefused(req[p].res)
              ELSE Succeeded(req[p].res)

\* C15: no step of /freja changes the collection, and what it answers is
\* fixed by the provider's result alone: for a completed assertion a token
\* for result.extra.primaryEmail, whatever the collection holds for that
\* email.
C15_FederatedIgnoresStore ==
  [][\A p \in Procs :
       (req'[p] # req[p] /\ req'[p].op = "freja") =>
         /\ users' = users
         /\ (req[p].pc = "provider" /\ req'[p].pc = "done") =>
              /\ req'[p].res =
                   frejaResponse(req'[p].res.result, req'[p].user.email, now)
              /\ req'[p].res.result = "completed" =>
                   req'[p].res.token = jwtSign(req'[p].user.email, now)]_vars

C15_Witness ==
  \E p \in Procs :
    /\ Answered(p, "freja") /\ req[p].res.result = "completed"
    /\ req[p].res.token.email = "a@x.com"
    /\ users["a@x.com"].twoFactorSecret # NoSecret
    /\ ~users["b@x.com"].found

\* C16: /logout changes nothing the server holds, it only tells the browser
\* to clear its cookie; a copy of a token sent before the logout is still
\* accepted by authenticateToken at every time before its exp.
C16_LogoutRevokesNothing ==
  [][\A p \in Procs :
       (req'[p] # req[p] /\ req'[p].op = "logout") =>
         /\ users' = users /\ kept' = kept
         /\ req'[p].res.clearCookie /\ req'[p].res.token = NoToken
         /\ (ServiceSigned(kept) /\ now < kept.exp) =>
              /\ Succeeded(authenticateResponse(kept', now'))
              /\ authenticateResponse(kept', now').email = kept.email]_vars

\* a logout answered while the caller holds a copy that has not expired
C16_Witness ==
  \E p \in Procs :
    /\ Answered(p, "logout") /\ req[p].res.clearCookie
    /\ ServiceSigned(kept) /\ kept.iat < now /\ now < kept.exp
    /\ Succeeded(authenticateResponse(kept, now))

\* C17 (as claimed): when /register, /login, /check, /setup or /verify ends
\* in its catch block, the answer is the handler's fixed 500 message, with
\* nothing of the error caught in it, and no token.
C17_FailuresAreGeneric ==
  \A p \in Procs :
    ( /\ req[p].pc = "done"
      /\ req[p].op \in {"register", "login", "check", "setup", "verify"}
      /\ req[p].res.status = 500 ) =>
      /\ req[p].res.details = ""
      /\ req[p].res.token = NoToken
      /\ req[p].res.error \in
           {RegisterFailed.error, LoginFailed("").error, CheckFailed.error, SetupFailed.error}

\* C18 (as claimed): of the /register requests answered for one email, at
\* most one reports success and every other one is answered
\* DuplicateAccount, however their steps interleave.
C18_OneRegistrationWins ==
  \A p, q \in Procs :
    ( /\ p # q
      /\ Answered(p, "register") /\ Answered(q, "register")
      /\ req[p].email = req[q].email ) =>
      /\ ~(Succeeded(req[p].res) /\ Succeeded(req[q].res))
      /\ Succeeded(req[p].res) \/ DuplicateAccount(req[p].res)

\* C19 (as claimed): a request that has been received and not yet answered
\* can always go on to its answer; none is left without one.
C19_EveryRequestAnswered ==
  \A p \in Procs :
    req[p].pc \notin {"idle", "done"} =>
      \E dbOk \in BOOLEAN, status \in ProviderStatus, primaryEmail \in Emails :
        \/ ENABLED RegisterSave(p, dbOk)
        \/ ENABLED LoginRespond(p)
        \/ ENABLED SetupSave(p, dbOk)
        \/ ENABLED FrejaResult(p, status, primaryEmail)
        \/ ENABLED FrejaReject(p)

\* the step in which the /login request of slot p gets its document
LoginReads(p) ==
  req[p].pc \in {"idle", "done"} /\ req'[p].op = "login" /\ req'[p].pc = "compare"

\* the step in which the /login request of slot p sends a token
LoginIssues(p) ==
  req[p].op = "login" /\ req[p].pc = "compare" /\ req'[p].res.token # NoToken

\* C20 (as claimed): a /login that read the account after a /setup had saved
\* a secret sends a token only if its twoFactorToken verifies against the
\* secret the collection holds for the account.
C20_VerifiedAgainstStored ==
  [][\A p \in Procs :
       (LoginIssues(p) /\ req[p].user.twoFactorSecret # NoSecret) =>
         totpVerify(users[req[p].email].twoFactorSecret, req[p].twoFactorToken, now)]_vars

\* C20 (amended): a /login reads the document as the collection holds it at
\* that moment, so one that starts after a /setup was saved reads a secret;
\* it sends a token only if its twoFactorToken verifies against the secret
\* of the document it read, and on the password alone only if that document
\* had no secret.
C20_VerifiedAgainstSecretRead ==
  [][\A p \in Procs :
       /\ LoginReads(p) =>
            /\ req'[p].user = users[req'[p].email]
            /\ users[req'[p].email].twoFactorSecret # NoSecret =>
                 req'[p].user.twoFactorSecret # NoSecret
       /\ LoginIssues(p) =>
            /\ bcryptCompare(req[p].password, req[p].user.password)
            /\ req[p].user.twoFactorSecret # NoSecret =>
                 totpVerify(req[p].user.twoFactorSecret, req[p].twoFactorToken, now)
            /\ ~req[p].twoFactorToken.given => req[p].user.twoFactorSecret = NoSecret]_vars

\* a login answered with a token on the code of the secret that the setup
\* answered in the other slot had saved before the login read it
C20_Witness ==
  \E p, q \in Procs :
    /\ p # q
    /\ Answered(p, "setup") /\ Succeeded(req[p].res)
    /\ Answered(q, "login") /\ req[q].res.token # NoToken
    /\ req[q].email = req[p].email
    /\ req[q].user.twoFactorSecret = req[p].secret
    /\ users[req[p].email].twoFactorSecret = req[p].secret

====
